---- MODULE Spec2Model ----
(***************************************************************************)
(* Model of dispatch-and-wait: main.py (DispatchContext and main),         *)
(* github.py (the four remote calls and the run/job/step data model) and   *)
(* util.py (the output sinks).                                             *)
(*                                                                         *)
(* One invocation of main() is a single thread of control.  It is cut into *)
(* steps at its remote calls and sleeps; the remote provider is the        *)
(* environment and answers every call nondeterministically.  Time is an    *)
(* integer number of ticks of 0.001 s (the floor of every sleep).          *)
(* Strings that are searched (step names, the marker) are sequences of     *)
(* one-character strings.                                                  *)
(***************************************************************************)
EXTENDS Integers, Sequences, FiniteSets, TLC

VARIABLES
    \* DispatchContext fields (main.py:13-22)
    workflow_inputs, do_summary, start_timeout_seconds, run_timeout_seconds,
    poll_interval,
    \* control position and clock
    pc, now,
    \* locals of main / find_run / wait_for_run / on_run_finished
    start_time, distinct_id, deadline, already_checked_runs, runs, idx, run,
    failed_steps,
    \* observable effects
    requests, calls, outputs, outcome,
    \* history of the provider's answers
    hist

vars == <<workflow_inputs, do_summary, start_timeout_seconds, run_timeout_seconds,
          poll_interval, pc, now, start_time, distinct_id, deadline,
          already_checked_runs, runs, idx, run, failed_steps, requests, calls,
          outputs, outcome, hist>>

config == <<workflow_inputs, do_summary, start_timeout_seconds, run_timeout_seconds,
            poll_interval>>

----------------------------------------------------------------------------
(* Bounds of the model *)

\* ticks in one second (1000 in the program; scaled down)
TicksPerSecond == 2
\* largest poll interval, in ticks
MaxPollInterval == 2
\* longest time one remote call may take, in ticks
MaxCallTime == 2

\* time.sleep(max(0.001, ...)): the floor of every sleep, one tick
MinTick == 1

----------------------------------------------------------------------------
(* Data model (github.py) *)

NoConclusion == "none"

\* is_failed / is_successful test membership in this list
SuccessfulConclusions == {"success", "neutral", "skipped"}

\* (variant: every run counts as finished)
is_finished_always(r) == TRUE

\* WorkflowRun.is_finished
is_finished(r) == r.conclusion # NoConclusion

\* (variant: only the conclusion success counts)
is_successful_strict(r) == r.conclusion = "success"

\* WorkflowRun.is_successful
is_successful(r) == r.conclusion \in SuccessfulConclusions

\* WorkflowRunStep.is_failed / WorkflowRunJob.is_failed (truthiness of the result)
is_failed(x) == x.conclusion # NoConclusion /\ x.conclusion \notin SuccessfulConclusions

StatusOf(c) == IF c = NoConclusion THEN "in_progress" ELSE "completed"

HtmlUrl(id) == <<"https://github.com/runs/", id>>

WorkflowRun(id, c) ==
    [id |-> id, status |-> StatusOf(c), conclusion |-> c, html_url |-> HtmlUrl(id)]

WorkflowRunStep(n, c) == [name |-> n, status |-> StatusOf(c), conclusion |-> c]

WorkflowRunJob(n, c, steps) ==
    [name |-> n, status |-> StatusOf(c), conclusion |-> c, steps |-> steps]

----------------------------------------------------------------------------
(* Values the caller and the provider can supply *)

\* run_timeout_seconds and start_timeout_seconds: positive whole seconds
TimeoutSeconds == {1}

\* str(uuid.uuid4()): a fresh random string
Markers == {<<"a", "b">>, <<"b", "a">>}

\* the caller's workflow_inputs (json.loads of a JSON object)
InputMaps ==
    { [k \in {} |-> <<>>],
      [k \in {"foo"} |-> <<"x">>],
      [k \in {"distinct_id"} |-> <<"x">>] }

\* ids of the runs the provider lists
RunIds == {1, 2}

RunConclusions == {NoConclusion, "success", "failure"}

FetchedConclusions == {NoConclusion, "success", "skipped", "failure", "cancelled"}

DistinctIds(s) == \A i, j \in 1..Len(s) : i # j => s[i].id # s[j].id

\* what list_workflow_runs can return: the provider's listing, or [] on any failure
Listings ==
    LET R == {WorkflowRun(id, c) : id \in RunIds, c \in RunConclusions}
    IN  {<<>>} \cup {<<r>> : r \in R}
               \cup {s \in {<<r, q>> : r \in R, q \in R} : DistinctIds(s)}

\* what get_workflow_run can return: the run, or None (the empty sequence) on failure
Fetches(run_id) == {<<>>} \cup {<<WorkflowRun(run_id, c)>> : c \in FetchedConclusions}

\* what list_workflow_run_jobs can return while searching: [] on failure,
\* or jobs whose step names do or do not contain a marker
SearchJobLists ==
    { <<>>,
      <<WorkflowRunJob("build", NoConclusion, <<>>)>>,
      <<WorkflowRunJob("build", "success", <<WorkflowRunStep(<<"x">>, "success")>>)>>,
      <<WorkflowRunJob("build", NoConclusion,
            <<WorkflowRunStep(<<"x">>, "success"),
              WorkflowRunStep(<<"x", "a", "b">>, NoConclusion)>>)>>,
      <<WorkflowRunJob("lint", "success", <<WorkflowRunStep(<<"a", "x", "b">>, "success")>>),
        WorkflowRunJob("build", "failure", <<WorkflowRunStep(<<"b", "a">>, "failure")>>)>>,
      <<WorkflowRunJob("build", "success", <<WorkflowRunStep(<<"b", "a", "b">>, "success")>>)>> }

\* what list_workflow_run_jobs can return to the failure report of an invocation
ReportJobLists ==
    { <<>>,
      <<WorkflowRunJob("build", "failure",
            <<WorkflowRunStep(<<"x">>, "success"), WorkflowRunStep(<<"y">>, "failure")>>)>>,
      <<WorkflowRunJob("lint", "success", <<WorkflowRunStep(<<"y">>, "failure")>>),
        WorkflowRunJob("build", "cancelled", <<WorkflowRunStep(<<"z">>, NoConclusion)>>)>> }

\* every answer of list_workflow_run_jobs of up to two jobs of up to two steps
AnyReportSteps ==
    { WorkflowRunStep(<<"x">>, "success"),
      WorkflowRunStep(<<"y">>, "failure"),
      WorkflowRunStep(<<"y">>, "timed_out"),
      WorkflowRunStep(<<"z">>, NoConclusion) }

AnyReportStepLists ==
    {<<>>} \cup {<<s>> : s \in AnyReportSteps}
           \cup {<<s, t>> : s \in AnyReportSteps, t \in AnyReportSteps}

AnyReportJobs ==
    {WorkflowRunJob("build", c, ss) :
        c \in {NoConclusion, "skipped", "failure"}, ss \in AnyReportStepLists}

AnyReportJobLists ==
    {<<>>} \cup {<<j>> : j \in AnyReportJobs}
           \cup {<<j, k>> : j \in AnyReportJobs, k \in AnyReportJobs}

----------------------------------------------------------------------------
(* Pure functions of main.py *)

Min(a, b) == IF a < b THEN a ELSE b
Max(a, b) == IF a > b THEN a ELSE b

\* the dict display {"distinct_id": distinct_id, **self.workflow_inputs}:
\* a key of the unpacked map replaces the one written before it
adjusted_inputs(id, inputs) ==
    [k \in {"distinct_id"} \cup DOMAIN inputs |->
        IF k \in DOMAIN inputs THEN inputs[k] ELSE id]

\* (variant: the characters of sub appear in s in order, with gaps allowed)
RECURSIVE StrContainsScattered(_, _)
StrContainsScattered(s, sub) ==
    IF sub = <<>> THEN TRUE
    ELSE IF s = <<>> THEN FALSE
    ELSE IF Head(s) = Head(sub) THEN StrContainsScattered(Tail(s), Tail(sub))
    ELSE StrContainsScattered(Tail(s), sub)

\* str.__contains__: `sub in s`, scanning s from the left
RECURSIVE StrContains(_, _)
StrContains(s, sub) ==
    IF Len(sub) > Len(s) THEN FALSE
    ELSE IF SubSeq(s, 1, Len(sub)) = sub THEN TRUE
    ELSE StrContains(Tail(s), sub)

\* for step in job.steps: if distinct_id in step.name
RECURSIVE AnyStepNamed(_, _)
AnyStepNamed(steps, id) ==
    IF steps = <<>> THEN FALSE
    ELSE IF StrContains(Head(steps).name, id) THEN TRUE
    ELSE AnyStepNamed(Tail(steps), id)

\* (variant: only the first job's steps are searched)
AnyJobMatchesFirstJob(jobs, id) ==
    jobs # <<>> /\ AnyStepNamed(Head(jobs).steps, id)

\* for job in jobs: for step in job.steps: ... return run
RECURSIVE AnyJobMatches(_, _)
AnyJobMatches(jobs, id) ==
    IF jobs = <<>> THEN FALSE
    ELSE IF AnyStepNamed(Head(jobs).steps, id) THEN TRUE
    ELSE AnyJobMatches(Tail(jobs), id)

\* (variant: the listing is not filtered)
unchecked_runs_unfiltered(listing, checked) == listing

\* runs = [run for run in runs if run.id not in already_checked_runs]
unchecked_runs(listing, checked) == SelectSeq(listing, LAMBDA r : r.id \notin checked)

\* (variant: the answer of the list-jobs call is not looked at)
checked_after_any_answer(checked, r, jobs) ==
    IF is_finished(r) THEN checked \cup {r.id} ELSE checked

\* (variant: the run need not be finished)
checked_after_unfinished(checked, r, jobs) ==
    IF jobs # <<>> THEN checked \cup {r.id} ELSE checked

\* if jobs and run.is_finished(): already_checked_runs.add(run.id)
checked_after(checked, r, jobs) ==
    IF jobs # <<>> /\ is_finished(r) THEN checked \cup {r.id} ELSE checked

\* (variant: the poll interval is left out of the sleep)
sleep_seconds_tick(poll, dl, t) == MinTick

\* (variant: the sleep grows to twice the poll interval)
sleep_seconds_backoff(poll, dl, t) == Max(MinTick, Min(2 * poll, dl - t))

\* max(0.001, min(self.poll_interval, deadline - time.time()))
sleep_seconds(poll, dl, t) == Max(MinTick, Min(poll, dl - t))

\* f"\n- {step.name} (status: {step.status}, conclusion: {step.conclusion})"
failed_step_line(step) ==
    <<"\n- ">> \o step.name
        \o <<" (status: ", step.status, ", conclusion: ", step.conclusion, ")">>

RECURSIVE failed_lines_of_steps(_)
failed_lines_of_steps(steps) ==
    IF steps = <<>> THEN <<>>
    ELSE (IF is_failed(Head(steps)) THEN failed_step_line(Head(steps)) ELSE <<>>)
             \o failed_lines_of_steps(Tail(steps))

\* (variant: the job's own conclusion is not looked at)
RECURSIVE failed_lines_of_all_jobs(_)
failed_lines_of_all_jobs(jobs) ==
    IF jobs = <<>> THEN <<>>
    ELSE failed_lines_of_steps(Head(jobs).steps) \o failed_lines_of_all_jobs(Tail(jobs))

RECURSIVE failed_lines_of_jobs(_)
failed_lines_of_jobs(jobs) ==
    IF jobs = <<>> THEN <<>>
    ELSE (IF is_failed(Head(jobs)) THEN failed_lines_of_steps(Head(jobs).steps) ELSE <<>>)
             \o failed_lines_of_jobs(Tail(jobs))

\* (variant: an empty listing is reported like a listing without failed steps)
get_failed_steps_no_placeholder(jobs) == failed_lines_of_jobs(jobs)

\* DispatchContext._get_failed_steps, given the answer of list_workflow_run_jobs
get_failed_steps(jobs) ==
    IF jobs = <<>> THEN <<" Unknown">> ELSE failed_lines_of_jobs(jobs)

\* the attributes module util defines; util.gh_summary is not one of them
util_defines(attr) == attr \in {"gh_output", "gh_error", "gh_notice", "log"}

\* (variant: the line is not written)
gh_output_lost(out, key, value) == out

\* util.gh_output(key, value) appends key=value to the output channel
gh_output(out, key, value) == Append(out, [key |-> key, value |-> value])

----------------------------------------------------------------------------
(* Initial state: a DispatchContext as the argument parser builds it *)

Seconds(n) == n * TicksPerSecond

NoCalls == [dispatch |-> 0, list_runs |-> 0, list_jobs |-> 0, get_run |-> 0]

NoHistory ==
    [ accepted  |-> <<>>,    \* what dispatch_workflow returned
      listed    |-> <<>>,    \* the listing of the current poll, as returned
      jobs      |-> <<>>,    \* the jobs of the matching run / of the failure report
      markers   |-> 0,       \* list-jobs answers of find_run that carried the marker
      found     |-> <<>>,    \* the run find_run returned
      fetched   |-> FALSE,   \* a get-run answer showed a conclusion
      reported  |-> <<>>,    \* the run on_run_finished was called with
      unannounced |-> FALSE, \* a get-run call or the report preceded the outputs
      added     |-> {},      \* ids of the runs of this search that were listed as
                             \* finished and answered with jobs, none with the marker
      late_list |-> FALSE,   \* a list-runs call was issued at or after the deadline
      late_fetch |-> FALSE,  \* a get-run call of this wait was issued at or after
                             \* the deadline
      stray     |-> FALSE,   \* wait_for_run went on after an answer with a conclusion,
                             \* or returned on, or with, anything else
      run_ids   |-> {},      \* the ids passed to get-run and to the report's list-jobs
      ref_hit   |-> 0,       \* find_run without the filter at main.py:38, on the same
                             \* answers: the place in the listing of the first run
                             \* dropped by the filter whose jobs would match (0: none)
      ref_found |-> <<>>     \* ... and the run it returns
    ]

Init ==
    /\ workflow_inputs \in InputMaps
    /\ do_summary \in BOOLEAN
    /\ start_timeout_seconds \in TimeoutSeconds
    /\ run_timeout_seconds \in TimeoutSeconds
    /\ poll_interval \in 1..MaxPollInterval
    /\ pc = "start"
    /\ now = 0
    /\ start_time = 0
    /\ distinct_id = <<>>
    /\ deadline = 0
    /\ already_checked_runs = {}
    /\ runs = <<>>
    /\ idx = 0
    /\ run = <<>>
    /\ failed_steps = <<>>
    /\ requests = <<>>
    /\ calls = NoCalls
    /\ outputs = <<>>
    /\ outcome = "running"
    /\ hist = NoHistory

\* (variant: the result of the dispatch call is not looked at)
dispatch_failed_ignored(ok) == FALSE

\* if not context.dispatch(distinct_id): raise
dispatch_failed(ok) == ~ok

\* The answer of a list-jobs call carries the marker: some step of some job has a
\* name of which the marker is a contiguous part (used for the history only)
CarriesMarker(jobs, id) ==
    \E j \in 1..Len(jobs) : \E k \in 1..Len(jobs[j].steps) :
        \E o \in 0..Len(jobs[j].steps[k].name) :
            /\ o + Len(id) <= Len(jobs[j].steps[k].name)
            /\ \A c \in 1..Len(id) : jobs[j].steps[k].name[o + c] = id[c]

\* raise Exception(...) out of main: the invocation ends with this error
Raise(kind) == pc' = "done" /\ outcome' = kind

\* util.gh_summary(...) where do_summary is set: the attribute lookup on module
\* util raises AttributeError when util does not define it
SummaryRaises == do_summary /\ ~util_defines("gh_summary")

----------------------------------------------------------------------------
(* main, lines 113-120: the marker, the dispatch call, entry into find_run *)

Dispatch ==
    /\ pc = "start"
    /\ \E id \in Markers, ok \in BOOLEAN, dt \in 0..MaxCallTime :
        /\ start_time' = now
        /\ distinct_id' = id
        /\ requests' = Append(requests, adjusted_inputs(id, workflow_inputs))
        /\ calls' = [calls EXCEPT !.dispatch = @ + 1]
        /\ now' = now + dt
        /\ hist' = [hist EXCEPT !.accepted = <<ok>>]
        /\ IF dispatch_failed(ok)
           THEN /\ Raise("DispatchFailed")
                /\ deadline' = deadline
           ELSE /\ pc' = "find"
                /\ deadline' = now + Seconds(start_timeout_seconds)
                /\ outcome' = outcome
    /\ UNCHANGED <<config, already_checked_runs, runs, idx, run, failed_steps, outputs>>

(* find_run, lines 35-38: the loop test, the listing call and the dedup filter *)

FindPoll ==
    /\ pc = "find"
    /\ now < deadline
    /\ \E listing \in Listings, dt \in 0..MaxCallTime :
        /\ runs' = unchecked_runs(listing, already_checked_runs)
        /\ now' = now + dt
        \* the answers a search without the filter would get for the runs in the
        \* set: the step names of a run once listed as finished, and answered
        \* without the marker, stay without it
        /\ LET dropped == {k \in 1..Len(listing) : listing[k].id \in already_checked_runs}
           IN  \E answer \in [dropped -> SearchJobLists] :
                 /\ \A k \in dropped : listing[k].id \in hist.added =>
                        ~CarriesMarker(answer[k], distinct_id)
                 /\ LET hits == {k \in dropped : AnyJobMatches(answer[k], distinct_id)}
                    IN  hist' = [hist EXCEPT
                            !.listed = listing,
                            !.late_list = @ \/ ~(now < deadline),
                            !.ref_hit = IF hits = {} THEN 0
                                        ELSE CHOOSE k \in hits : \A m \in hits : k <= m]
    /\ idx' = 1
    /\ pc' = "scan"
    /\ calls' = [calls EXCEPT !.list_runs = @ + 1]
    /\ UNCHANGED <<config, start_time, distinct_id, deadline, already_checked_runs, run,
                   failed_steps, requests, outputs, outcome>>

(* find_run, lines 35 and 54: the loop test fails, the search times out *)

FindTimeout ==
    /\ pc = "find"
    /\ ~(now < deadline)
    /\ Raise("SearchTimeout")
    /\ UNCHANGED <<config, now, start_time, distinct_id, deadline, already_checked_runs,
                   runs, idx, run, failed_steps, requests, calls, outputs, hist>>

(* find_run, lines 39-52: one run of the filtered listing *)

\* what a search without the filter returns in the current poll, when the
\* search with it does, or does not, return runs[idx]
RefReturn(matched) ==
    IF hist.ref_found # <<>> THEN hist.ref_found
    ELSE IF matched
         THEN LET place == CHOOSE k \in 1..Len(hist.listed) : hist.listed[k].id = runs[idx].id
              IN  IF hist.ref_hit # 0 /\ hist.ref_hit < place
                  THEN <<hist.listed[hist.ref_hit]>> ELSE <<runs[idx]>>
         ELSE IF idx >= Len(runs) /\ hist.ref_hit # 0
              THEN <<hist.listed[hist.ref_hit]>> ELSE <<>>

CheckRun ==
    /\ pc = "scan"
    /\ idx <= Len(runs)
    /\ \E jobs \in SearchJobLists, dt \in 0..MaxCallTime :
        /\ now' = now + dt
        /\ IF AnyJobMatches(jobs, distinct_id)
           THEN /\ run' = <<runs[idx]>>
                /\ pc' = "found"
                /\ UNCHANGED <<already_checked_runs, idx>>
           ELSE /\ already_checked_runs' = checked_after(already_checked_runs, runs[idx], jobs)
                /\ idx' = idx + 1
                /\ UNCHANGED <<run, pc>>
        /\ hist' = IF CarriesMarker(jobs, distinct_id)
                   THEN [hist EXCEPT !.markers = @ + 1, !.jobs = jobs,
                                     !.found = IF pc' = "found" THEN run' ELSE @,
                                     !.ref_found = RefReturn(pc' = "found")]
                   ELSE [hist EXCEPT !.found = IF pc' = "found" THEN run' ELSE @,
                                     !.ref_found = RefReturn(pc' = "found"),
                                     !.added = IF /\ runs[idx].conclusion # NoConclusion
                                                  /\ jobs # <<>>
                                               THEN @ \cup {runs[idx].id} ELSE @]
    /\ calls' = [calls EXCEPT !.list_jobs = @ + 1]
    /\ UNCHANGED <<config, start_time, distinct_id, deadline, runs, failed_steps,
                   requests, outputs, outcome>>

(* find_run, line 53: the sleep that ends an iteration *)

FindSleep ==
    /\ pc = "scan"
    /\ idx > Len(runs)
    /\ now' = now + sleep_seconds(poll_interval, deadline, now)
    /\ pc' = "find"
    \* runs and the loop position are rebound by the next iteration
    /\ runs' = <<>>
    /\ idx' = 0
    /\ hist' = [hist EXCEPT !.listed = <<>>, !.ref_hit = 0,
                            !.ref_found = RefReturn(FALSE)]
    /\ UNCHANGED <<config, start_time, distinct_id, deadline, already_checked_runs,
                   run, failed_steps, requests, calls, outputs, outcome>>

(* (variant of EmitOutputs: wait_for_run keeps the deadline of the search)    *)

EmitOutputsSharedDeadline ==
    /\ pc = "found"
    /\ outputs' = gh_output(gh_output(outputs, "run_id", run[1].id),
                            "run_url", run[1].html_url)
    /\ IF SummaryRaises
       THEN Raise("AttributeError") /\ UNCHANGED deadline
       ELSE /\ outcome' = outcome
            /\ IF is_finished(run[1])
               THEN pc' = "finished" /\ UNCHANGED deadline
               ELSE pc' = "wait" /\ UNCHANGED deadline
    /\ already_checked_runs' = {}
    /\ runs' = <<>>
    /\ idx' = 0
    /\ hist' = [hist EXCEPT !.listed = <<>>, !.jobs = <<>>, !.added = {}, !.ref_hit = 0]
    /\ UNCHANGED <<config, now, start_time, distinct_id, run, failed_steps, requests, calls>>

(* main, lines 121-131: the outputs, the summary, the choice between waiting  *)
(* and reporting; wait_for_run, line 63: the wait deadline                    *)

EmitOutputs ==
    /\ pc = "found"
    /\ outputs' = gh_output(gh_output(outputs, "run_id", run[1].id),
                            "run_url", run[1].html_url)
    /\ IF SummaryRaises
       THEN Raise("AttributeError") /\ UNCHANGED deadline
       ELSE /\ outcome' = outcome
            /\ IF is_finished(run[1])
               THEN pc' = "finished" /\ UNCHANGED deadline
               ELSE pc' = "wait" /\ deadline' = now + Seconds(run_timeout_seconds)
    \* find_run has returned: its locals are gone with its frame
    /\ already_checked_runs' = {}
    /\ runs' = <<>>
    /\ idx' = 0
    /\ hist' = [hist EXCEPT !.listed = <<>>, !.jobs = <<>>, !.added = {}, !.ref_hit = 0]
    /\ UNCHANGED <<config, now, start_time, distinct_id, run, failed_steps, requests, calls>>

(* wait_for_run, lines 64-68: sleep, fetch the run, return it if finished *)

WaitPoll ==
    /\ pc = "wait"
    /\ now < deadline
    /\ \E got \in Fetches(run[1].id), dt \in 0..MaxCallTime :
        /\ now' = now + sleep_seconds(poll_interval, deadline, now) + dt
        /\ IF got # <<>> /\ is_finished(got[1])
           THEN /\ run' = got
                /\ pc' = "finished"
           ELSE /\ UNCHANGED <<run, pc>>
        /\ LET concluded == got # <<>> /\ got[1].conclusion # NoConclusion
               issued == now + sleep_seconds(poll_interval, deadline, now)
           IN  hist' = [hist EXCEPT
                   !.fetched = @ \/ pc' = "finished",
                   !.unannounced = @ \/ outputs = <<>>,
                   \* wait_for_run has returned: its deadline is gone with its frame
                   !.late_fetch = pc' = "wait" /\ (@ \/ ~(issued < deadline)),
                   !.stray = @ \/ (concluded # (pc' = "finished"))
                               \/ (concluded /\ run' # got),
                   !.run_ids = @ \cup {run[1].id}]
    /\ calls' = [calls EXCEPT !.get_run = @ + 1]
    /\ UNCHANGED <<config, start_time, distinct_id, deadline, already_checked_runs, runs,
                   idx, failed_steps, requests, outputs, outcome>>

(* (variant of WaitTimeout: the time is not tested against the deadline)      *)

WaitTimeoutUntested ==
    /\ pc = "wait"
    /\ IF SummaryRaises THEN Raise("AttributeError") ELSE Raise("RunTimeout")
    /\ UNCHANGED <<config, now, start_time, distinct_id, deadline, already_checked_runs,
                   runs, idx, run, failed_steps, requests, calls, outputs, hist>>

(* wait_for_run, lines 64 and 69-71: the loop test fails, the wait times out *)

WaitTimeout ==
    /\ pc = "wait"
    /\ ~(now < deadline)
    /\ IF SummaryRaises THEN Raise("AttributeError") ELSE Raise("RunTimeout")
    /\ UNCHANGED <<config, now, start_time, distinct_id, deadline, already_checked_runs,
                   runs, idx, run, failed_steps, requests, calls, outputs, hist>>

(* on_run_finished, lines 74-83: a successful run *)

RunSucceeded ==
    /\ pc = "finished"
    /\ is_successful(run[1])
    /\ hist' = [hist EXCEPT !.reported = run, !.unannounced = @ \/ outputs = <<>>]
    /\ IF SummaryRaises THEN Raise("AttributeError") ELSE Raise("Success")
    /\ UNCHANGED <<config, now, start_time, distinct_id, deadline, already_checked_runs,
                   runs, idx, run, failed_steps, requests, calls, outputs>>

(* on_run_finished, lines 84-95, with _get_failed_steps: an unsuccessful run *)

RunFailedWith(answers) ==
    /\ pc = "finished"
    /\ ~is_successful(run[1])
    /\ \E jobs \in answers, dt \in 0..MaxCallTime :
        /\ now' = now + dt
        /\ failed_steps' = get_failed_steps(jobs)
        /\ hist' = [hist EXCEPT !.reported = run, !.jobs = jobs,
                                !.unannounced = @ \/ outputs = <<>>,
                                !.run_ids = @ \cup {run[1].id}]
    /\ calls' = [calls EXCEPT !.list_jobs = @ + 1]
    /\ IF SummaryRaises THEN Raise("AttributeError") ELSE Raise("RunFailed")
    /\ UNCHANGED <<config, start_time, distinct_id, deadline, already_checked_runs, runs,
                   idx, run, requests, outputs>>

RunFailed == RunFailedWith(ReportJobLists)

Next ==
    \/ Dispatch
    \/ FindPoll
    \/ FindTimeout
    \/ CheckRun
    \/ FindSleep
    \/ EmitOutputs
    \/ WaitPoll
    \/ WaitTimeout
    \/ RunSucceeded
    \/ RunFailed

Spec == Init /\ [][Next]_vars

----------------------------------------------------------------------------
(* The failure report alone: on_run_finished entered with an unsuccessful    *)
(* finished run, list_workflow_run_jobs answering with any job list          *)

InitReport ==
    /\ workflow_inputs \in InputMaps
    /\ do_summary = FALSE
    /\ start_timeout_seconds = 1
    /\ run_timeout_seconds = 1
    /\ poll_interval = 1
    /\ pc = "finished"
    /\ now = 0
    /\ start_time = 0
    /\ distinct_id \in Markers
    /\ deadline = Seconds(start_timeout_seconds)
    /\ already_checked_runs = {}
    /\ run \in {<<WorkflowRun(id, "failure")>> : id \in RunIds}
    /\ runs = <<>>
    /\ idx = 0
    /\ failed_steps = <<>>
    /\ requests = <<adjusted_inputs(distinct_id, workflow_inputs)>>
    /\ calls = [dispatch |-> 1, list_runs |-> 1, list_jobs |-> 1, get_run |-> 0]
    /\ outputs = gh_output(gh_output(<<>>, "run_id", run[1].id), "run_url", run[1].html_url)
    /\ outcome = "running"
    /\ hist = [NoHistory EXCEPT !.accepted = <<TRUE>>, !.markers = 1,
                                !.found = run, !.ref_found = run]

ReportFailed == RunFailedWith(AnyReportJobLists)

SpecReport == InitReport /\ [][ReportFailed]_vars

----------------------------------------------------------------------------
(* Properties of one invocation *)

Taxonomy == {"DispatchFailed", "SearchTimeout", "RunTimeout", "RunFailed"}

\* C1: if dispatch_workflow returns false, main fails with the dispatch-failed
\* error, has issued no list-runs, list-jobs or get-run call, and has emitted
\* no run_id / run_url.
C1_DispatchFailedStopsAll ==
    hist.accepted = <<FALSE>> =>
        /\ pc = "done"
        /\ outcome = "DispatchFailed"
        /\ calls.list_runs = 0 /\ calls.list_jobs = 0 /\ calls.get_run = 0
        /\ outputs = <<>>

C1_Witness == hist.accepted = <<FALSE>> /\ outcome = "DispatchFailed" /\ now > 0

\* C2: whatever input map the caller supplies, the inputs sent in the trigger
\* request carry distinct_id equal to the generated marker, the string find_run
\* searches the step names for.
C2_RequestCarriesMarker ==
    \A i \in 1..Len(requests) :
        /\ "distinct_id" \in DOMAIN requests[i]
        /\ requests[i]["distinct_id"] = distinct_id

\* runs is hist.listed without the runs of the dedup set, in the listing's order
ExaminedInListingOrder ==
    \E f \in [1..Len(runs) -> 1..Len(hist.listed)] :
        /\ \A i, j \in 1..Len(runs) : i < j => f[i] < f[j]
        /\ \A i \in 1..Len(runs) : runs[i] = hist.listed[f[i]]
        /\ \A i \in 1..Len(runs) : i >= idx => runs[i].id \notin already_checked_runs
        /\ \A k \in 1..Len(hist.listed) :
            (\A i \in 1..Len(runs) : f[i] # k) => hist.listed[k].id \in already_checked_runs

\* C3: find_run returns the first run, in the order of the current poll's
\* listing (the runs of the dedup set left out), whose list-jobs answer has a
\* step name containing the marker; the result is a function of the answers; and
\* it returns on the first poll that shows such a run: while it is still
\* searching, no answer so far carried the marker.
C3_FirstMatchInListingOrder ==
    /\ pc \in {"find", "scan"} => hist.markers = 0
    /\ pc \in {"scan", "found"} => ExaminedInListingOrder
    /\ pc = "found" =>
        /\ hist.markers = 1
        /\ CarriesMarker(hist.jobs, distinct_id)
        /\ idx \in 1..Len(runs)
        /\ run = <<runs[idx]>>
        /\ hist.found = run

C3_Witness ==
    /\ pc = "found"
    /\ idx = 2
    /\ calls.list_runs = 2
    /\ Len(hist.listed) = 2

\* C4: if no list-jobs answer ever carries the marker before the search deadline
\* (also when every listing or list-jobs call fails and returns empty), an
\* accepted dispatch ends in the search-timeout error, with no get-run call and
\* no run_id / run_url emitted.
C4_SearchTimeout ==
    (hist.accepted = <<TRUE>> /\ hist.markers = 0) =>
        /\ pc \in {"find", "scan", "done"}
        /\ pc = "done" => outcome = "SearchTimeout"
        /\ calls.get_run = 0
        /\ outputs = <<>>
        /\ hist.found = <<>>

C4_Witness ==
    /\ outcome = "SearchTimeout"
    /\ calls.list_runs = 2
    /\ calls.list_jobs > 0

\* C5: if the run find_run returned is not finished and no get-run answer shows
\* it with a conclusion before the run deadline, the invocation fails with the
\* run-timeout error and on_run_finished is never called.
C5_RunTimeout ==
    (hist.found # <<>> /\ ~is_finished(hist.found[1]) /\ ~hist.fetched) =>
        /\ hist.reported = <<>>
        /\ pc = "done" => outcome = "RunTimeout"

\* C6: for either value of do_summary an invocation ends in success or in exactly
\* one of the four error kinds, and in success exactly when the finished run's
\* conclusion is success, neutral or skipped; no other error leaves main.
C6_BinaryOutcome ==
    pc = "done" =>
        /\ outcome \in {"Success"} \cup Taxonomy
        /\ outcome = "Success" <=>
            (run # <<>> /\ run[1].conclusion \in {"success", "neutral", "skipped"})

\* C10: if the run find_run returned is already finished, main goes straight to
\* on_run_finished: no get-run call is issued, the wait is never entered, no
\* run-timeout occurs, and the invocation ends having reported that run.
C10_FinishedGoesToReporter ==
    (hist.found # <<>> /\ is_finished(hist.found[1])) =>
        /\ calls.get_run = 0
        /\ pc # "wait"
        /\ outcome # "RunTimeout"
        /\ pc = "done" => hist.reported = hist.found

\* C9: run_id and run_url are emitted as soon as find_run has returned: no
\* remote call lies between the return and the two outputs, every get-run call
\* and the call of on_run_finished come after them, and they stay emitted when
\* the invocation ends in run-timeout or run-failed.
C9_OutputsBeforeWaitAndReport ==
    /\ ~hist.unannounced
    /\ pc = "found" => (calls.get_run = 0 /\ hist.reported = <<>>)
    /\ (hist.found # <<>> /\ pc # "found") =>
        outputs = << [key |-> "run_id", value |-> hist.found[1].id],
                     [key |-> "run_url", value |-> hist.found[1].html_url] >>
    /\ outcome \in {"RunTimeout", "RunFailed"} => Len(outputs) = 2
    /\ hist.found = <<>> => outputs = <<>>

C9_Witness == outcome = "RunTimeout" /\ calls.get_run > 1 /\ Len(outputs) = 2

----------------------------------------------------------------------------
(* Properties of the failure report *)

Present(c) == c # NoConclusion

Unsuccessful(x) == Present(x.conclusion) /\ x.conclusion \notin {"success", "neutral", "skipped"}

\* the <<job, step>> positions of the failed steps of failed jobs
FailedPositions(jobs) ==
    UNION { { <<j, k>> : k \in {n \in 1..Len(jobs[j].steps) : Unsuccessful(jobs[j].steps[n])} }
            : j \in {m \in 1..Len(jobs) : Unsuccessful(jobs[m])} }

Precedes(p, q) == p[1] < q[1] \/ (p[1] = q[1] /\ p[2] < q[2])

\* where the lines of a report start
LineStarts(report) == {i \in 1..Len(report) : report[i] = "\n- "}

\* the text of the line starting at i, up to the next line or the end
LineAt(report, i) ==
    LET later == {n \in LineStarts(report) : n > i}
        stop  == IF later = {} THEN Len(report) + 1
                 ELSE CHOOSE n \in later : \A m \in later : n <= m
    IN  SubSeq(report, i + 1, stop - 1)

\* C7: for an unsuccessful finished run whose job listing is not empty, the
\* report holds exactly one line for each failed step of a failed job, in job
\* order then step order, naming the step, its status and its conclusion, and
\* nothing else.
C7_OneLinePerFailedStep ==
    (hist.reported # <<>> /\ ~is_successful(hist.reported[1]) /\ hist.jobs # <<>>) =>
        LET P == FailedPositions(hist.jobs)
            S == LineStarts(failed_steps)
        IN  /\ Cardinality(S) = Cardinality(P)
            /\ failed_steps # <<>> => failed_steps[1] = "\n- "
            /\ \A p \in P : \E i \in S :
                /\ Cardinality({n \in S : n < i}) = Cardinality({q \in P : Precedes(q, p)})
                /\ LET step == hist.jobs[p[1]].steps[p[2]]
                   IN  LineAt(failed_steps, i) =
                           step.name \o <<" (status: ", step.status,
                                          ", conclusion: ", step.conclusion, ")">>

C7_Witness ==
    /\ pc = "done"
    /\ Len(hist.jobs) = 2
    /\ Cardinality(FailedPositions(hist.jobs)) = 2
    /\ \E j \in 1..2 : ~Unsuccessful(hist.jobs[j]) /\ \E k \in 1..Len(hist.jobs[j].steps) :
            Unsuccessful(hist.jobs[j].steps[k])

\* C8: the report is the literal placeholder exactly when the job listing came
\* back empty; a non-empty listing, with or without failed steps, never yields
\* the placeholder.
C8_PlaceholderOnlyWhenEmpty ==
    (hist.reported # <<>> /\ ~is_successful(hist.reported[1])) =>
        (failed_steps = <<" Unknown">> <=> hist.jobs = <<>>)

C8_Witness ==
    /\ pc = "done"
    /\ hist.reported # <<>>
    /\ hist.jobs = <<>>
    /\ failed_steps = <<" Unknown">>

\* the report of a non-empty listing without failed steps is the empty text
C8_NoFailuresReached ==
    /\ pc = "done"
    /\ hist.jobs # <<>>
    /\ FailedPositions(hist.jobs) = {}
    /\ failed_steps = <<>>

----------------------------------------------------------------------------
(* Properties of the reporter, the polls and the dedup set *)

\* on_run_finished is called in this step
ReporterRuns == hist.reported = <<>> /\ hist'.reported # <<>>

\* C11: when the finished run is successful (conclusion success, neutral or
\* skipped) on_run_finished yields success and issues no remote call; it calls
\* list-jobs, once, only for an unsuccessful run.
C11_SuccessNeedsNoCall ==
    [][ ReporterRuns =>
          IF hist'.reported[1].conclusion \in {"success", "neutral", "skipped"}
          THEN calls' = calls /\ outcome' = "Success" /\ failed_steps' = failed_steps
          ELSE /\ calls'.list_jobs = calls.list_jobs + 1
               /\ calls'.list_runs = calls.list_runs /\ calls'.get_run = calls.get_run
               /\ outcome' # "Success" ]_vars

C11_Witness ==
    /\ outcome = "Success"
    /\ hist.reported # <<>>
    /\ hist.reported[1].conclusion = "skipped"

\* C12 (as claimed): when no answer carries the marker, the number of list-runs
\* polls before the search-timeout error is within one of
\* start_timeout_seconds / poll_interval.
C12_PollCountWithinOne ==
    outcome = "SearchTimeout" =>
        /\ calls.list_runs * poll_interval <= start_timeout_seconds * TicksPerSecond + poll_interval
        /\ calls.list_runs * poll_interval >= start_timeout_seconds * TicksPerSecond - poll_interval

\* C12 (amended): the number of list-runs polls of a search is less than
\* start_timeout_seconds / poll_interval + 1; it has no lower bound but zero,
\* because the time the remote calls take counts against the deadline.
C12_PollCountAtMost ==
    calls.list_runs >= 1 =>
        (calls.list_runs - 1) * poll_interval < start_timeout_seconds * TicksPerSecond

C12_Witness ==
    /\ outcome = "SearchTimeout"
    /\ hist.markers = 0
    /\ poll_interval = 1
    /\ calls.list_runs = start_timeout_seconds * TicksPerSecond

C12_FewPollsReached ==
    /\ outcome = "SearchTimeout"
    /\ poll_interval = 1
    /\ calls.list_runs = 0

\* C13: within one find_run call, no list-jobs call is issued for a run whose id
\* is in the dedup set.
C13_NoRefetchOfChecked ==
    [][ (pc = "scan" /\ calls'.list_jobs # calls.list_jobs) =>
            /\ idx \in 1..Len(runs)
            /\ runs[idx].id \notin already_checked_runs ]_vars

C13_Witness ==
    /\ pc = "scan"
    /\ idx = 2
    /\ calls.list_runs = 2
    /\ \E k \in 1..Len(hist.listed) : hist.listed[k].id \in already_checked_runs
    /\ Len(runs) < Len(hist.listed)

\* C14: every id in the dedup set is the id of a run that, in the poll that
\* added it, was listed as finished and answered with a non-empty list of jobs
\* none of whose step names contains the marker; a run that is unfinished, or
\* whose answer is empty, is not added and is examined again by every later
\* poll that lists it.
C14_DedupOnlyFinishedWithJobs ==
    /\ already_checked_runs = hist.added
    /\ pc = "scan" =>
        \A k \in 1..Len(hist.listed) :
            hist.listed[k].id \notin hist.added =>
                \E i \in 1..Len(runs) : runs[i] = hist.listed[k]

C14_Witness ==
    /\ pc = "scan"
    /\ calls.list_runs = 2
    /\ Len(hist.listed) = 2
    /\ Len(runs) = 1
    /\ runs[1].conclusion = NoConclusion
    /\ already_checked_runs # {}

\* C15 (as claimed): in each phase a last check is made when no time remains: a
\* search that times out has issued a list-runs call, and a wait that times out a
\* get-run call, at or after the deadline of the phase.
C15_LastCheckAtDeadline ==
    /\ outcome = "SearchTimeout" => hist.late_list
    /\ outcome = "RunTimeout" => hist.late_fetch

\* C15 (amended): find_run issues a list-runs call only while time remains, and
\* may time out without any; wait_for_run issues at least one get-run call
\* before it times out, and every iteration it enters ends with one, after its
\* sleep, also when that sleep reaches the deadline.
C15_CheckOnlyWhenEntered ==
    /\ ~hist.late_list
    /\ outcome = "RunTimeout" => calls.get_run >= 1
    /\ (pc = "wait" /\ hist.late_fetch) => ~(now < deadline)

C15_Witness ==
    /\ outcome = "RunTimeout"
    /\ hist.late_fetch
    /\ calls.get_run = 2

C15_NoPollReached ==
    /\ outcome = "SearchTimeout"
    /\ calls.list_runs = 0

\* C16: in wait_for_run a get-run answer that is absent or shows no conclusion
\* leaves the wait going, with the same interval for the next sleep; the first
\* answer that shows a conclusion is returned; the wait fails only with the
\* run-timeout error, when its deadline has passed.
C16_WaitSurvivesAbsentAnswers ==
    [][ pc = "wait" =>
          /\ ~hist'.stray
          /\ calls'.get_run # calls.get_run =>
                /\ pc' \in {"wait", "finished"}
                /\ LET slept == IF poll_interval < deadline - now
                                THEN poll_interval ELSE deadline - now
                   IN  now' - now - slept \in 0..MaxCallTime
                /\ pc' = "wait" => run' = run /\ deadline' = deadline
                /\ pc' = "finished" =>
                      run'[1].conclusion # NoConclusion /\ run'[1].id = run[1].id
          /\ pc' = "done" => outcome' = "RunTimeout" /\ ~(now < deadline) ]_vars

C16_Witness ==
    /\ pc = "finished"
    /\ hist.fetched
    /\ calls.get_run = 2

\* C17 (as claimed): the search deadline is the time find_run is entered plus
\* start_timeout_seconds, and the wait deadline the time wait_for_run is entered
\* plus run_timeout_seconds.
C17_DeadlineFromPhaseEntry ==
    /\ (pc = "find" /\ calls.list_runs = 0) =>
            deadline = now + start_timeout_seconds * TicksPerSecond
    /\ (pc = "wait" /\ calls.get_run = 0) =>
            deadline = now + run_timeout_seconds * TicksPerSecond

\* C17 (amended): the search deadline is the time main read before the dispatch
\* call plus start_timeout_seconds, so the time the dispatch call takes shortens
\* the search; the wait deadline is the time wait_for_run is entered plus
\* run_timeout_seconds, so the time the search takes does not shorten the wait.
C17_DeadlineFromStartTime ==
    /\ pc \in {"find", "scan"} =>
            /\ deadline = start_time + start_timeout_seconds * TicksPerSecond
            /\ start_time <= now
    /\ (pc = "find" /\ calls.list_runs = 0) =>
            deadline - now \in (start_timeout_seconds * TicksPerSecond - MaxCallTime)
                                 .. (start_timeout_seconds * TicksPerSecond)
    /\ (pc = "wait" /\ calls.get_run = 0) =>
            deadline = now + run_timeout_seconds * TicksPerSecond

C17_Witness ==
    /\ pc = "wait"
    /\ calls.get_run = 0
    /\ now > start_time + start_timeout_seconds * TicksPerSecond

C17_ShortenedSearchReached ==
    /\ pc = "find"
    /\ calls.list_runs = 0
    /\ now > start_time

----------------------------------------------------------------------------
(* Termination.  main is one thread; a remote call returns (requests time out
   after 30 seconds, github.py) and a sleep returns, so a step that is possible
   is eventually taken. *)

FairSpec == Spec /\ WF_vars(Next)

\* C18: every invocation ends in success or in one of the four errors of the
\* taxonomy, whatever the provider answers.
C18_EndsInAnOutcome == <>(pc = "done" /\ outcome \in {"Success"} \cup Taxonomy)

\* every invocation ends
C18_EveryRunEnds == <>(pc = "done")

\* every iteration of either loop moves the clock towards the deadline by at
\* least the minimum tick
C18_LoopsAdvance ==
    [][ ((pc = "scan" /\ pc' = "find") \/ (pc = "wait" /\ pc' = "wait")) =>
            (now' >= now + MinTick /\ deadline' = deadline) ]_vars

----------------------------------------------------------------------------
(* The run that is waited for and reported *)

\* the id emitted as run_id, if any
EmittedRunIds == { outputs[i].value : i \in { k \in 1..Len(outputs) : outputs[k].key = "run_id" } }

\* C20: on_run_finished is called only with a run that has a conclusion and
\* whose id is the one emitted as run_id; every get-run call of wait_for_run and
\* the list-jobs call of the report are made for that id.
C20_ReportedRunIsEmittedRun ==
    /\ hist.reported # <<>> =>
        /\ hist.reported[1].conclusion # NoConclusion
        /\ EmittedRunIds = {hist.reported[1].id}
    /\ hist.run_ids # {} => hist.run_ids = EmittedRunIds
    /\ (calls.get_run > 0 \/ outcome = "RunFailed") => hist.run_ids # {}

C20_Witness ==
    /\ outcome = "RunFailed"
    /\ hist.fetched
    /\ calls.get_run = 2
    /\ hist.run_ids = {2}

----------------------------------------------------------------------------
(* The dedup set and the result of the search *)

\* C19: if the step names of a run once listed as finished do not change,
\* find_run returns the same run, on the same poll, as a search that examines
\* every listed run on every poll and is given the same answers, and finds none
\* when that search finds none.
C19_DedupKeepsResult ==
    /\ hist.ref_found = hist.found
    /\ pc = "found" => hist.ref_found = run
    /\ outcome = "SearchTimeout" => hist.ref_found = <<>>

C19_Witness ==
    /\ pc = "found"
    /\ calls.list_runs = 2
    /\ Len(hist.listed) = 2
    /\ hist.listed[1].id \in already_checked_runs
    /\ run = <<hist.listed[2]>>
    /\ hist.ref_found = run

====
